---- MODULE Spec2Model ----
(***************************************************************************)
(* Model of the Halshare (TM2101-SR) reader: HalshareReader and main of    *)
(* halshare_app.py (halshare_reader.py carries the same class).            *)
(*                                                                         *)
(* Encodings                                                               *)
(*   - a frame is a sequence of bytes 0..255;                              *)
(*   - a temperature is kept in sixteenths of a degree Celsius, which is   *)
(*     exact for byte * 0.0625 + 25.0;                                     *)
(*   - a datetime is [s, us]: whole seconds since 2024-01-01 00:00:00 and  *)
(*     the microsecond field; strftime output is [day, hh, mm, ss] with    *)
(*     day the number of days since 2024-01-01;                            *)
(*   - event loop time is counted in ticks of 0.1 s.                       *)
(***************************************************************************)
EXTENDS Integers, Sequences, FiniteSets, TLC

VARIABLES
    pc,                     \* position of main / get_temperature_data
    client,                 \* reader.client: "None" or "BleakClient"
    is_connected,           \* reader.client.is_connected
    subscribed,             \* transport: notification_handler registered
    data_buffer,            \* reader.data_buffer
    measurement_complete,   \* reader.measurement_complete
    data_acquisition_time,  \* reader.data_acquisition_time
    loop_time,              \* asyncio.get_event_loop().time()
    start_time,             \* local start_time of get_temperature_data
    measurements,           \* value returned by get_temperature_data
    csv_rows,               \* value returned by generate_csv_data
    error,                  \* exception that left get_temperature_data/connect
    byte_value,             \* arguments of two calls of calculate_temperature
    temperature,            \* their results
    arrived,                \* history: frames handed to notification_handler
    ops,                    \* history: transport calls, in order, with outcome
    exit_kind,              \* history: how the wait loop was left
    exit_frames,            \* history: Len(arrived) when the wait loop was left
    last_buffer             \* history: data_buffer before the latest frame

vars == <<pc, client, is_connected, subscribed, data_buffer,
          measurement_complete, data_acquisition_time, loop_time, start_time,
          measurements, csv_rows, error, byte_value, temperature,
          arrived, ops, exit_kind, exit_frames, last_buffer>>

(***************************************************************************)
(* Bounds of the model                                                     *)
(***************************************************************************)
MaxFrames == 3          \* frames the sensor delivers in one session
MaxSamples == 3         \* buffer length given to generate_csv_data on its own
MaxFrameLen == 4        \* frame length given to notification_handler on its own
MaxLoopTicks == 3000    \* event loop time up to which the wait loop is followed

(***************************************************************************)
(* Program constants                                                       *)
(***************************************************************************)
WEARER_NAME == "test"
BASE_TEMPERATURE == 400         \* 25.0 degrees, in sixteenths
CELSIUS_PER_LSB == 1            \* 0.0625 degrees, in sixteenths
TIMEOUT == 60                   \* main: get_temperature_data(timeout=60)
TICKS_PER_SECOND == 10          \* asyncio.sleep(0.1) is one tick
SECONDS_PER_MINUTE == 60        \* timedelta(minutes=...)
SECONDS_PER_DAY == 86400
ADDRESS == "selected_address"
None == "None"
NoneTime == [s |-> 0, us |-> -1]    \* data_acquisition_time = None
EN == <<69, 78>>                \* b'EN'
GETDATA == <<71, 69, 84, 68, 65, 84, 65>>   \* "GETDATA"

\* Durations after which one asyncio.sleep(0.1) returns, in ticks: the sleep
\* lasts at least one tick and may overrun.
SleepSteps == {400, 650}

\* Frames the sensor may deliver in a session: two data frames of one
\* sample, one of two samples, a frame of odd length, and the completion
\* frame.
Frames == { <<5, 40>>, <<10, 48>>, <<3, 255, 7, 0>>, <<5, 40, 10>>, <<69, 78>> }

\* Byte values of the frames given to notification_handler on its own:
\* 'E', 'N', and the two ends of the byte range.
FrameBytes == {0, 69, 78, 255}

\* Values datetime.now() may return when a completion frame is handled.
ClockReadings ==
    { [s |-> 36000, us |-> 0],          \* 2024-01-01 10:00:00.000000
      [s |-> 200,   us |-> 500000] }    \* 2024-01-01 00:03:20.500000

(***************************************************************************)
(* Pure helpers of the Python runtime                                      *)
(***************************************************************************)
\* bytes.startswith
StartsWith(data, prefix) ==
    /\ Len(data) >= Len(prefix)
    /\ \A i \in 1..Len(prefix) : data[i] = prefix[i]

\* Variant: the interval is added instead of subtracted.
MinusMinutes_plus(dt, m) == [s |-> dt.s + m * SECONDS_PER_MINUTE, us |-> dt.us]

\* datetime - timedelta(minutes=m)
MinusMinutes(dt, m) == [s |-> dt.s - m * SECONDS_PER_MINUTE, us |-> dt.us]

\* datetime.strftime("%Y/%m/%d %H:%M:%S")
Strftime(dt) ==
    LET sod == dt.s % SECONDS_PER_DAY
    IN  [day |-> dt.s \div SECONDS_PER_DAY,
         hh  |-> sod \div 3600,
         mm  |-> (sod % 3600) \div 60,
         ss  |-> sod % 60]

\* Variant: the rows are left newest-first.
Reverse_omitted(seq) == seq

\* list.reverse
Reverse(seq) == [i \in 1..Len(seq) |-> seq[Len(seq) + 1 - i]]

\* An entry of the transport history: the call, whether it succeeded, and
\* the bytes it carried.
Op(name, ok, payload) == [op |-> name, ok |-> ok, payload |-> payload]

\* (command_str + "\n").encode('utf-8')
EncodeCommand(command_str) == Append(command_str, 10)

(***************************************************************************)
(* HalshareReader.calculate_temperature                                    *)
(***************************************************************************)
\* Variant: the byte is used as a signed value.
calculate_temperature_signed(b) == (b * CELSIUS_PER_LSB) + BASE_TEMPERATURE

calculate_temperature(b) ==
    LET unsigned_value == IF b >= 0 THEN b ELSE b + 256
    IN  (unsigned_value * CELSIUS_PER_LSB) + BASE_TEMPERATURE

(***************************************************************************)
(* notification_handler                                                    *)
(***************************************************************************)
\* Variant: each sample is inserted at the front of the buffer.
RECURSIVE ParseLoop_newest_first(_, _, _)
ParseLoop_newest_first(data, i, buffer) ==
    IF i >= Len(data) THEN buffer
    ELSE LET interval_byte == data[i + 1]
             temp_byte == data[i + 2]
         IN  ParseLoop_newest_first(data, i + 2,
                 << [interval |-> interval_byte,
                     temperature |-> calculate_temperature(temp_byte),
                     raw_temp_byte |-> temp_byte] >> \o buffer)

\* Variant: the two bytes of a pair are taken in the other order.
RECURSIVE ParseLoop_swapped(_, _, _)
ParseLoop_swapped(data, i, buffer) ==
    IF i >= Len(data) THEN buffer
    ELSE LET interval_byte == data[i + 2]
             temp_byte == data[i + 1]
         IN  ParseLoop_swapped(data, i + 2,
                 Append(buffer, [interval |-> interval_byte,
                                 temperature |-> calculate_temperature(temp_byte),
                                 raw_temp_byte |-> temp_byte]))

\* for i in range(0, len(data), 2): data_buffer.append({...}); i is 0-based
RECURSIVE ParseLoop(_, _, _)
ParseLoop(data, i, buffer) ==
    IF i >= Len(data) THEN buffer
    ELSE LET interval_byte == data[i + 1]
             temp_byte == data[i + 2]
         IN  ParseLoop(data, i + 2,
                 Append(buffer, [interval |-> interval_byte,
                                 temperature |-> calculate_temperature(temp_byte),
                                 raw_temp_byte |-> temp_byte]))

\* Variant: the completion frame is recognised by its first byte alone.
IsCompletionFrame_first_byte(data) == StartsWith(data, <<69>>)

IsCompletionFrame(data) == StartsWith(data, EN)

IsDataFrame(data) == Len(data) >= 2 /\ Len(data) % 2 = 0

\* Variant: the completion frame raises the flag without recording the time.
notification_handler_flag_only(data, now) ==
    /\ subscribed /\ is_connected
    /\ Len(arrived) < MaxFrames
    /\ arrived' = Append(arrived, data)
    /\ last_buffer' = data_buffer
    /\ IF IsCompletionFrame(data)
       THEN /\ measurement_complete' = TRUE
            /\ UNCHANGED <<data_acquisition_time, data_buffer>>
       ELSE /\ IF IsDataFrame(data)
               THEN data_buffer' = ParseLoop(data, 0, data_buffer)
               ELSE UNCHANGED data_buffer
            /\ UNCHANGED <<measurement_complete, data_acquisition_time>>
    /\ UNCHANGED <<pc, client, is_connected, subscribed, loop_time, start_time,
                   measurements, csv_rows, error, byte_value, temperature,
                   ops, exit_kind, exit_frames>>

\* Variant: the even-length test comes before the completion test.
notification_handler_data_first(data, now) ==
    /\ subscribed /\ is_connected
    /\ Len(arrived) < MaxFrames
    /\ arrived' = Append(arrived, data)
    /\ last_buffer' = data_buffer
    /\ IF IsDataFrame(data)
       THEN /\ data_buffer' = ParseLoop(data, 0, data_buffer)
            /\ UNCHANGED <<measurement_complete, data_acquisition_time>>
       ELSE /\ IF IsCompletionFrame(data)
               THEN /\ measurement_complete' = TRUE
                    /\ data_acquisition_time' = now
               ELSE UNCHANGED <<measurement_complete, data_acquisition_time>>
            /\ UNCHANGED data_buffer
    /\ UNCHANGED <<pc, client, is_connected, subscribed, loop_time, start_time,
                   measurements, csv_rows, error, byte_value, temperature,
                   ops, exit_kind, exit_frames>>

\* One callback of the transport: runs to its end whenever the handler is
\* registered and the connection is up, while main is suspended in an await.
notification_handler(data, now) ==
    /\ subscribed /\ is_connected
    /\ Len(arrived) < MaxFrames
    /\ arrived' = Append(arrived, data)
    /\ last_buffer' = data_buffer
    /\ IF IsCompletionFrame(data)
       THEN /\ measurement_complete' = TRUE
            /\ data_acquisition_time' = now
            /\ UNCHANGED data_buffer
       ELSE /\ IF IsDataFrame(data)
               THEN data_buffer' = ParseLoop(data, 0, data_buffer)
               ELSE UNCHANGED data_buffer
            /\ UNCHANGED <<measurement_complete, data_acquisition_time>>
    /\ UNCHANGED <<pc, client, is_connected, subscribed, loop_time, start_time,
                   measurements, csv_rows, error, byte_value, temperature,
                   ops, exit_kind, exit_frames>>

(***************************************************************************)
(* HalshareReader.generate_csv_data                                        *)
(***************************************************************************)
\* Variant: the interval is subtracted before the sample is stamped.
RECURSIVE CsvLoop_subtract_first(_, _, _, _, _)
CsvLoop_subtract_first(buffer, address, i, current_time, rows) ==
    IF i < 0 THEN rows
    ELSE LET data == buffer[i + 1]
             stamp_time == MinusMinutes(current_time, data.interval)
             row == [halshareWearerName |-> WEARER_NAME,
                     halshareId |-> address,
                     datetime |-> Strftime(stamp_time),
                     temperature |-> data.temperature]
         IN  CsvLoop_subtract_first(buffer, address, i - 1, stamp_time,
                                    Append(rows, row))

\* for i in range(len(buffer) - 1, -1, -1): ...; i is 0-based
RECURSIVE CsvLoop(_, _, _, _, _)
CsvLoop(buffer, address, i, current_time, rows) ==
    IF i < 0 THEN rows
    ELSE LET data == buffer[i + 1]
             row == [halshareWearerName |-> WEARER_NAME,
                     halshareId |-> address,
                     datetime |-> Strftime(current_time),
                     temperature |-> data.temperature]
             next_time == IF i > 0
                          THEN MinusMinutes(current_time, data.interval)
                          ELSE current_time
         IN  CsvLoop(buffer, address, i - 1, next_time, Append(rows, row))

\* Variant: the walk stops before the oldest sample.
generate_csv_data_skip_oldest(buffer, acquisition_time, address) ==
    IF buffer = <<>> \/ acquisition_time = NoneTime
    THEN <<>>
    ELSE Reverse(CsvLoop(Tail(buffer), address, Len(buffer) - 2,
                         acquisition_time, <<>>))

\* Variant: only the buffer is tested before the walk.
generate_csv_data_buffer_only(buffer, acquisition_time, address) ==
    IF buffer = <<>>
    THEN <<>>
    ELSE Reverse(CsvLoop(buffer, address, Len(buffer) - 1, acquisition_time, <<>>))

generate_csv_data(buffer, acquisition_time, address) ==
    IF buffer = <<>> \/ acquisition_time = NoneTime
    THEN <<>>
    ELSE Reverse(CsvLoop(buffer, address, Len(buffer) - 1, acquisition_time, <<>>))

(***************************************************************************)
(* main and HalshareReader.get_temperature_data                            *)
(***************************************************************************)
Init ==
    /\ pc = "connect"
    /\ client = None
    /\ is_connected = FALSE
    /\ subscribed = FALSE
    /\ data_buffer = <<>>
    /\ measurement_complete = FALSE
    /\ data_acquisition_time = NoneTime
    /\ loop_time = 0
    /\ start_time = 0
    /\ measurements = <<>>
    /\ csv_rows = <<>>
    /\ error = None
    /\ byte_value = <<0, 0>>
    /\ temperature = <<0, 0>>
    /\ arrived = <<>>
    /\ ops = <<>>
    /\ exit_kind = None
    /\ exit_frames = 0
    /\ last_buffer = <<>>

\* HalshareReader.connect: client = BleakClient(address); await client.connect()
connect ==
    /\ pc = "connect"
    /\ client' = "BleakClient"
    /\ \/ /\ is_connected' = TRUE
          /\ ops' = Append(ops, Op("connect", TRUE, <<>>))
          /\ pc' = "settle"
          /\ UNCHANGED error
       \/ /\ is_connected' = FALSE
          /\ ops' = Append(ops, Op("connect", FALSE, <<>>))
          /\ error' = "ConnectionError"
          /\ pc' = "disconnect"
    /\ UNCHANGED <<subscribed, data_buffer, measurement_complete,
                   data_acquisition_time, loop_time, start_time, measurements,
                   csv_rows, byte_value, temperature, arrived, exit_kind,
                   exit_frames, last_buffer>>

\* main: await asyncio.sleep(1)
settle ==
    /\ pc = "settle"
    /\ loop_time' = loop_time + TICKS_PER_SECOND
    /\ pc' = "start_notify"
    /\ UNCHANGED <<client, is_connected, subscribed, data_buffer,
                   measurement_complete, data_acquisition_time, start_time,
                   measurements, csv_rows, error, byte_value, temperature,
                   arrived, ops, exit_kind, exit_frames, last_buffer>>

\* Variant: a failed start_notify is swallowed and the session goes on.
setup_notification_swallow ==
    /\ pc = "start_notify"
    /\ \/ /\ subscribed' = TRUE
          /\ ops' = Append(ops, Op("start_notify", TRUE, <<>>))
       \/ /\ ops' = Append(ops, Op("start_notify", FALSE, <<>>))
          /\ UNCHANGED subscribed
    /\ pc' = "write"
    /\ UNCHANGED <<client, is_connected, data_buffer, measurement_complete,
                   data_acquisition_time, loop_time, start_time, measurements,
                   csv_rows, error, byte_value, temperature, arrived, exit_kind,
                   exit_frames, last_buffer>>

\* setup_notification: await client.start_notify(READ_CHAR_UUID, handler)
setup_notification ==
    /\ pc = "start_notify"
    /\ \/ /\ subscribed' = TRUE
          /\ ops' = Append(ops, Op("start_notify", TRUE, <<>>))
          /\ pc' = "write"
          /\ UNCHANGED error
       \/ /\ ops' = Append(ops, Op("start_notify", FALSE, <<>>))
          /\ error' = "TransportError"
          /\ pc' = "disconnect"
          /\ UNCHANGED subscribed
    /\ UNCHANGED <<client, is_connected, data_buffer, measurement_complete,
                   data_acquisition_time, loop_time, start_time, measurements,
                   csv_rows, byte_value, temperature, arrived, exit_kind,
                   exit_frames, last_buffer>>

\* The head of the wait loop, reached without an await in between:
\* while not self.measurement_complete: await asyncio.sleep(0.1)
\* and, when the loop is not entered, the call of stop_notify.
WhileHead(complete) == IF complete THEN "stop_notify" ELSE "sleep"

\* Variant: a failed write is tried again.
send_command_retry ==
    /\ pc = "write"
    /\ \/ /\ ops' = Append(ops, Op("write_gatt_char", TRUE, EncodeCommand(GETDATA)))
          /\ start_time' = loop_time
          /\ pc' = WhileHead(measurement_complete)
          /\ IF measurement_complete
             THEN exit_kind' = "complete" /\ exit_frames' = Len(arrived)
             ELSE UNCHANGED <<exit_kind, exit_frames>>
       \/ /\ Len(ops) < 6
          /\ ops' = Append(ops, Op("write_gatt_char", FALSE, EncodeCommand(GETDATA)))
          /\ pc' = "write"
          /\ UNCHANGED <<start_time, exit_kind, exit_frames>>
    /\ UNCHANGED <<client, is_connected, subscribed, data_buffer,
                   measurement_complete, data_acquisition_time, loop_time,
                   measurements, csv_rows, error, byte_value, temperature,
                   arrived, last_buffer>>

\* send_command("GETDATA"): await client.write_gatt_char(WRITE_CHAR_UUID, bytes)
\* then start_time = loop.time() and the first test of the while condition.
send_command ==
    /\ pc = "write"
    /\ \/ /\ ops' = Append(ops, Op("write_gatt_char", TRUE, EncodeCommand(GETDATA)))
          /\ start_time' = loop_time
          /\ pc' = WhileHead(measurement_complete)
          /\ IF measurement_complete
             THEN exit_kind' = "complete" /\ exit_frames' = Len(arrived)
             ELSE UNCHANGED <<exit_kind, exit_frames>>
          /\ UNCHANGED error
       \/ /\ ops' = Append(ops, Op("write_gatt_char", FALSE, EncodeCommand(GETDATA)))
          /\ error' = "TransportError"
          /\ pc' = "disconnect"
          /\ UNCHANGED <<start_time, exit_kind, exit_frames>>
    /\ UNCHANGED <<client, is_connected, subscribed, data_buffer,
                   measurement_complete, data_acquisition_time, loop_time,
                   measurements, csv_rows, byte_value, temperature, arrived,
                   last_buffer>>

\* Variant: the timeout is raised as an error instead of leaving the loop.
wait_loop_raise(d) ==
    /\ pc = "sleep"
    /\ loop_time' = loop_time + d
    /\ IF loop_time' - start_time > TIMEOUT * TICKS_PER_SECOND
       THEN /\ exit_kind' = "timeout"
            /\ exit_frames' = Len(arrived)
            /\ error' = "TimeoutError"
            /\ pc' = "disconnect"
       ELSE /\ pc' = WhileHead(measurement_complete)
            /\ IF measurement_complete
               THEN exit_kind' = "complete" /\ exit_frames' = Len(arrived)
               ELSE UNCHANGED <<exit_kind, exit_frames>>
            /\ UNCHANGED error
    /\ UNCHANGED <<client, is_connected, subscribed, data_buffer,
                   measurement_complete, data_acquisition_time, start_time,
                   measurements, csv_rows, byte_value, temperature,
                   arrived, ops, last_buffer>>

\* Variant: the timeout test is missing from the loop.
wait_loop_no_timeout(d) ==
    /\ pc = "sleep"
    /\ loop_time < MaxLoopTicks
    /\ loop_time' = loop_time + d
    /\ pc' = WhileHead(measurement_complete)
    /\ IF measurement_complete
       THEN exit_kind' = "complete" /\ exit_frames' = Len(arrived)
       ELSE UNCHANGED <<exit_kind, exit_frames>>
    /\ UNCHANGED <<client, is_connected, subscribed, data_buffer,
                   measurement_complete, data_acquisition_time, start_time,
                   measurements, csv_rows, error, byte_value, temperature,
                   arrived, ops, last_buffer>>

\* One turn of the wait loop: await asyncio.sleep(0.1) returns after d ticks,
\* then the timeout test, then the while condition.
wait_loop(d) ==
    /\ pc = "sleep"
    /\ loop_time < MaxLoopTicks
    /\ loop_time' = loop_time + d
    /\ IF loop_time' - start_time > TIMEOUT * TICKS_PER_SECOND
       THEN /\ exit_kind' = "timeout"
            /\ exit_frames' = Len(arrived)
            /\ pc' = "stop_notify"
       ELSE /\ pc' = WhileHead(measurement_complete)
            /\ IF measurement_complete
               THEN exit_kind' = "complete" /\ exit_frames' = Len(arrived)
               ELSE UNCHANGED <<exit_kind, exit_frames>>
    /\ UNCHANGED <<client, is_connected, subscribed, data_buffer,
                   measurement_complete, data_acquisition_time, start_time,
                   measurements, csv_rows, error, byte_value, temperature,
                   arrived, ops, last_buffer>>

\* await client.stop_notify(READ_CHAR_UUID); return self.data_buffer
stop_notify ==
    /\ pc = "stop_notify"
    /\ \/ /\ subscribed' = FALSE
          /\ ops' = Append(ops, Op("stop_notify", TRUE, <<>>))
          /\ measurements' = data_buffer
          /\ pc' = "report"
          /\ UNCHANGED error
       \/ /\ ops' = Append(ops, Op("stop_notify", FALSE, <<>>))
          /\ error' = "TransportError"
          /\ pc' = "disconnect"
          /\ UNCHANGED <<subscribed, measurements>>
    /\ UNCHANGED <<client, is_connected, data_buffer, measurement_complete,
                   data_acquisition_time, loop_time, start_time, csv_rows,
                   byte_value, temperature, arrived, exit_kind, exit_frames,
                   last_buffer>>

\* main: if measurements: csv_data = reader.generate_csv_data() ...
report ==
    /\ pc = "report"
    /\ IF measurements # <<>>
       THEN csv_rows' = generate_csv_data(data_buffer, data_acquisition_time, ADDRESS)
       ELSE UNCHANGED csv_rows
    /\ pc' = "disconnect"
    /\ UNCHANGED <<client, is_connected, subscribed, data_buffer,
                   measurement_complete, data_acquisition_time, loop_time,
                   start_time, measurements, error, byte_value, temperature,
                   arrived, ops, exit_kind, exit_frames, last_buffer>>

\* main's finally: HalshareReader.disconnect
disconnect ==
    /\ pc = "disconnect"
    /\ IF client # None /\ is_connected
       THEN /\ is_connected' = FALSE
            /\ subscribed' = FALSE
            /\ ops' = Append(ops, Op("disconnect", TRUE, <<>>))
       ELSE UNCHANGED <<is_connected, subscribed, ops>>
    /\ pc' = "done"
    /\ UNCHANGED <<client, data_buffer, measurement_complete,
                   data_acquisition_time, loop_time, start_time, measurements,
                   csv_rows, error, byte_value, temperature, arrived,
                   exit_kind, exit_frames, last_buffer>>

\* A user interrupt while main is suspended in an await: asyncio.run cancels
\* the main task, the CancelledError passes "except Exception" and main's
\* finally runs. The call that was being awaited has been made; it is
\* recorded as not completed.
cancel ==
    /\ pc \in {"settle", "start_notify", "write", "sleep", "stop_notify"}
    /\ ops' = CASE pc = "start_notify" ->
                     Append(ops, Op("start_notify", FALSE, <<>>))
                 [] pc = "write" ->
                     Append(ops, Op("write_gatt_char", FALSE, EncodeCommand(GETDATA)))
                 [] pc = "stop_notify" ->
                     Append(ops, Op("stop_notify", FALSE, <<>>))
                 [] OTHER -> ops
    /\ error' = "CancelledError"
    /\ pc' = "disconnect"
    /\ UNCHANGED <<client, is_connected, subscribed, data_buffer,
                   measurement_complete, data_acquisition_time, loop_time,
                   start_time, measurements, csv_rows, byte_value, temperature,
                   arrived, exit_kind, exit_frames, last_buffer>>

Notify == \E data \in Frames : \E now \in ClockReadings :
              notification_handler(data, now)

WaitLoop == \E d \in SleepSteps : wait_loop(d)

Next ==
    \/ connect
    \/ settle
    \/ setup_notification
    \/ send_command
    \/ WaitLoop
    \/ stop_notify
    \/ report
    \/ disconnect
    \/ Notify
    \/ cancel

Spec == Init /\ [][Next]_vars

\* The event loop resumes a coroutine whose sleep has elapsed or whose
\* transport call has completed.
FairSpec == Spec /\ WF_vars(WaitLoop) /\ WF_vars(stop_notify)

(***************************************************************************)
(* notification_handler on its own: the session is awaiting completion     *)
(* with some samples already buffered (and possibly a completion frame     *)
(* already seen), and one frame of any shape is delivered.                 *)
(***************************************************************************)
RECURSIVE SeqsUpTo(_, _)
SeqsUpTo(S, n) ==
    IF n = 0 THEN { <<>> }
    ELSE LET shorter == SeqsUpTo(S, n - 1)
         IN  shorter \cup { Append(q, x) : q \in shorter, x \in S }

AllFrames == SeqsUpTo(FrameBytes, MaxFrameLen)

PriorBuffers ==
    { <<>>, ParseLoop(<<5, 40>>, 0, <<>>), ParseLoop(<<5, 40, 10, 48>>, 0, <<>>) }

HandlerInit ==
    /\ pc = "sleep"
    /\ client = "BleakClient"
    /\ is_connected = TRUE
    /\ subscribed = TRUE
    /\ data_buffer \in PriorBuffers
    /\ data_acquisition_time \in ClockReadings \cup {NoneTime}
    /\ measurement_complete = (data_acquisition_time # NoneTime)
    /\ loop_time = TICKS_PER_SECOND
    /\ start_time = TICKS_PER_SECOND
    /\ measurements = <<>>
    /\ csv_rows = <<>>
    /\ error = None
    /\ byte_value = <<0, 0>>
    /\ temperature = <<0, 0>>
    /\ arrived = <<>>
    /\ ops = << Op("connect", TRUE, <<>>), Op("start_notify", TRUE, <<>>),
                Op("write_gatt_char", TRUE, EncodeCommand(GETDATA)) >>
    /\ exit_kind = None
    /\ exit_frames = 0
    /\ last_buffer = data_buffer

HandlerNext ==
    \E data \in AllFrames : \E now \in ClockReadings :
        arrived = <<>> /\ notification_handler(data, now)

SpecHandler == HandlerInit /\ [][HandlerNext]_vars

(***************************************************************************)
(* generate_csv_data on its own: a reader holding any buffer of at most    *)
(* MaxSamples samples and any completion time, or none.                    *)
(***************************************************************************)
SamplePairs == { <<5, 40>>, <<10, 48>>, <<255, 255>>, <<0, 0>> }

SampleSet == { ParseLoop(p, 0, <<>>)[1] : p \in SamplePairs }

CsvTimes == ClockReadings \cup { [s |-> 86399, us |-> 999999], NoneTime }

CsvInit ==
    /\ pc = "csv_call"
    /\ client = None
    /\ is_connected = FALSE
    /\ subscribed = FALSE
    /\ data_buffer \in SeqsUpTo(SampleSet, MaxSamples)
    /\ data_acquisition_time \in CsvTimes
    /\ measurement_complete = (data_acquisition_time # NoneTime)
    /\ loop_time = 0
    /\ start_time = 0
    /\ measurements = <<>>
    /\ csv_rows = <<>>
    /\ error = None
    /\ byte_value = <<0, 0>>
    /\ temperature = <<0, 0>>
    /\ arrived = <<>>
    /\ ops = <<>>
    /\ exit_kind = None
    /\ exit_frames = 0
    /\ last_buffer = data_buffer

CsvCall ==
    /\ pc = "csv_call"
    /\ csv_rows' = generate_csv_data(data_buffer, data_acquisition_time, ADDRESS)
    /\ pc' = "csv_done"
    /\ UNCHANGED <<client, is_connected, subscribed, data_buffer,
                   measurement_complete, data_acquisition_time, loop_time,
                   start_time, measurements, error, byte_value, temperature,
                   arrived, ops, exit_kind, exit_frames, last_buffer>>

CsvNext == CsvCall

SpecCsv == CsvInit /\ [][CsvNext]_vars

(***************************************************************************)
(* calculate_temperature on its own: two arguments, the first over the     *)
(* signed and unsigned byte range, the second over the unsigned range.     *)
(***************************************************************************)
TempInit ==
    /\ pc = "temp_call"
    /\ client = None
    /\ is_connected = FALSE
    /\ subscribed = FALSE
    /\ data_buffer = <<>>
    /\ measurement_complete = FALSE
    /\ data_acquisition_time = NoneTime
    /\ loop_time = 0
    /\ start_time = 0
    /\ measurements = <<>>
    /\ csv_rows = <<>>
    /\ error = None
    /\ byte_value \in (-128..255) \X (0..255)
    /\ temperature = <<0, 0>>
    /\ arrived = <<>>
    /\ ops = <<>>
    /\ exit_kind = None
    /\ exit_frames = 0
    /\ last_buffer = <<>>

TempCall ==
    /\ pc = "temp_call"
    /\ temperature' = << calculate_temperature(byte_value[1]),
                         calculate_temperature(byte_value[2]) >>
    /\ pc' = "temp_done"
    /\ UNCHANGED <<client, is_connected, subscribed, data_buffer,
                   measurement_complete, data_acquisition_time, loop_time,
                   start_time, measurements, csv_rows, error, byte_value,
                   arrived, ops, exit_kind, exit_frames, last_buffer>>

TempNext == TempCall

SpecTemp == TempInit /\ [][TempNext]_vars

(***************************************************************************)
(* Vocabulary of the properties, stated without the reader's operators     *)
(***************************************************************************)
Last(seq) == seq[Len(seq)]

StartsEN(f) == Len(f) >= 2 /\ f[1] = 69 /\ f[2] = 78

CarriesSamples(f) == Len(f) > 0 /\ Len(f) % 2 = 0 /\ ~StartsEN(f)

\* The (interval, raw byte) pairs of a frame that carries samples.
PairsOf(f) == [j \in 1..(Len(f) \div 2) |->
                  [interval |-> f[2 * j - 1], raw_temp_byte |-> f[2 * j]]]

\* The pairs of a sequence of frames, in arrival order.
RECURSIVE SamplesOf(_)
SamplesOf(frames) ==
    IF frames = <<>> THEN <<>>
    ELSE LET front == SamplesOf(SubSeq(frames, 1, Len(frames) - 1))
         IN  IF CarriesSamples(Last(frames))
             THEN front \o PairsOf(Last(frames))
             ELSE front

\* A buffer seen as (interval, raw byte) pairs.
PairsIn(buffer) == [k \in 1..Len(buffer) |->
                       [interval |-> buffer[k].interval,
                        raw_temp_byte |-> buffer[k].raw_temp_byte]]

IsPrefix(p, q) == Len(p) <= Len(q) /\ SubSeq(q, 1, Len(p)) = p

OpsNamed(name) == { i \in DOMAIN ops : ops[i].op = name }

Succeeded(name) == \E i \in DOMAIN ops : ops[i].op = name /\ ops[i].ok

Returned == pc \in {"report", "disconnect", "done"} /\ error = None

\* Sum of the intervals of the samples after position k.
RECURSIVE IntervalsAfter(_, _)
IntervalsAfter(buffer, k) ==
    IF k >= Len(buffer) THEN 0
    ELSE buffer[k + 1].interval + IntervalsAfter(buffer, k + 1)

\* T moved back by m minutes, as printed to the second.
StampBefore(T, m) ==
    LET sec == T.s - 60 * m
    IN  [day |-> sec \div 86400,
         hh  |-> (sec % 86400) \div 3600,
         mm  |-> (sec % 3600) \div 60,
         ss  |-> sec % 60]

Stamps(rows) == [k \in 1..Len(rows) |-> rows[k].datetime]

(***************************************************************************)
(* Session ordering                                                        *)
(***************************************************************************)
\* C1: the transport calls of get_temperature_data occur in the order
\* subscribe, command write, unsubscribe: the command "GETDATA\n" is written
\* only after start_notify succeeded, at most once, and exactly once as soon
\* as a session that subscribed has passed the write; stop_notify is invoked
\* only after the write succeeded.
C1_SubscribeWriteUnsubscribe ==
    /\ Cardinality(OpsNamed("start_notify")) <= 1
    /\ Cardinality(OpsNamed("write_gatt_char")) <= 1
    /\ Cardinality(OpsNamed("stop_notify")) <= 1
    /\ \A w \in OpsNamed("write_gatt_char") :
          /\ ops[w].payload = <<71, 69, 84, 68, 65, 84, 65, 10>>
          /\ \E n \in 1..(w - 1) : ops[n].op = "start_notify" /\ ops[n].ok
    /\ \A u \in OpsNamed("stop_notify") :
          \E w \in 1..(u - 1) : ops[w].op = "write_gatt_char" /\ ops[w].ok
    /\ (Succeeded("start_notify") /\ pc # "write")
          => Cardinality(OpsNamed("write_gatt_char")) = 1

C1_Witness ==
    /\ pc = "done"
    /\ [i \in DOMAIN ops |-> ops[i].op] =
          <<"connect", "start_notify", "write_gatt_char", "stop_notify", "disconnect">>
    /\ \A i \in DOMAIN ops : ops[i].ok

(***************************************************************************)
(* Timeline reconstruction                                                 *)
(***************************************************************************)
\* C2: for a non-empty buffer and a completion time T, generate_csv_data
\* returns one record per sample, record k stamped T minus the sum of the
\* intervals of the samples after k; the last record is stamped T, the
\* interval of the oldest sample changes no stamp, and a buffer of one sample
\* gives one record stamped T.
C2_StampIsCompletionMinusLaterIntervals ==
    (pc = "csv_done" /\ data_buffer # <<>> /\ data_acquisition_time # NoneTime) =>
        LET T == data_acquisition_time
            n == Len(data_buffer)
        IN  /\ Len(csv_rows) = n
            /\ \A k \in 1..n :
                  csv_rows[k].datetime =
                      StampBefore(T, IntervalsAfter(data_buffer, k))
            /\ csv_rows[n].datetime = StampBefore(T, 0)
            /\ \A v \in {0, 255} :
                  Stamps(generate_csv_data(
                      [data_buffer EXCEPT ![1].interval = v], T, ADDRESS))
                  = Stamps(csv_rows)

C2_Witness ==
    /\ pc = "csv_done"
    /\ Len(data_buffer) = 3
    /\ data_buffer[1].interval = 255
    /\ data_buffer[2].interval = 5
    /\ data_buffer[3].interval = 10
    /\ data_acquisition_time = [s |-> 200, us |-> 500000]
    /\ Stamps(csv_rows) = << [day |-> -1, hh |-> 23, mm |-> 48, ss |-> 20],
                             [day |-> -1, hh |-> 23, mm |-> 53, ss |-> 20],
                             [day |-> 0, hh |-> 0, mm |-> 3, ss |-> 20] >>

\* C3: when the frames 05 28, 0A 30 and "EN" arrive in that order and the
\* completion time is 2024-01-01 10:00:00, the session returns completed with
\* the buffer [(5, 27.5), (10, 28.0)] and the records are exactly
\* 09:50:00 -> 27.5 and 10:00:00 -> 28.0, in that order.
C3_Frames == << <<5, 40>>, <<10, 48>>, <<69, 78>> >>

C3_EndToEnd ==
    (arrived = C3_Frames /\ data_acquisition_time = [s |-> 36000, us |-> 0]) =>
        /\ Returned =>
              /\ measurement_complete
              /\ measurements =
                    << [interval |-> 5, temperature |-> 440, raw_temp_byte |-> 40],
                       [interval |-> 10, temperature |-> 448, raw_temp_byte |-> 48] >>
        /\ (Returned /\ pc # "report") =>
              csv_rows =
                  << [halshareWearerName |-> "test", halshareId |-> ADDRESS,
                      datetime |-> [day |-> 0, hh |-> 9, mm |-> 50, ss |-> 0],
                      temperature |-> 440],
                     [halshareWearerName |-> "test", halshareId |-> ADDRESS,
                      datetime |-> [day |-> 0, hh |-> 10, mm |-> 0, ss |-> 0],
                      temperature |-> 448] >>

C3_Witness ==
    /\ pc = "done"
    /\ error = None
    /\ arrived = C3_Frames
    /\ exit_kind = "complete"
    /\ exit_frames = 3
    /\ data_acquisition_time = [s |-> 36000, us |-> 0]
    /\ Len(csv_rows) = 2

(***************************************************************************)
(* Timeout and completion                                                  *)
(***************************************************************************)
\* C4: when the wait loop is left by timeout, leaving it raises no error (an
\* error can then only come from a failed stop_notify), and the returned
\* buffer holds the samples of the frames that arrived before the timeout, in
\* arrival order, none dropped, duplicated or reordered.
C4_TimeoutKeepsSamples ==
    (exit_kind = "timeout") =>
        /\ pc = "stop_notify" => error = None
        /\ error # None =>
              \E i \in DOMAIN ops : ops[i].op = "stop_notify" /\ ~ops[i].ok
        /\ Returned =>
              /\ IsPrefix(SamplesOf(SubSeq(arrived, 1, exit_frames)),
                          PairsIn(measurements))
              /\ PairsIn(measurements) = SamplesOf(arrived)

C4_Witness ==
    /\ pc = "done"
    /\ error = None
    /\ exit_kind = "timeout"
    /\ ~measurement_complete
    /\ arrived = << <<10, 48>>, <<5, 40, 10>>, <<5, 40>> >>
    /\ exit_frames = 3
    /\ Len(measurements) = 2

\* C5: once a frame starting with 'E','N' has been handled, no later frame
\* changes the sample buffer: the buffer holds only the samples of the frames
\* that arrived before the first completion frame.
C5_BufferFrozenAfterCompletion ==
    \A i \in DOMAIN arrived :
        StartsEN(arrived[i]) =>
            PairsIn(data_buffer) = SamplesOf(SubSeq(arrived, 1, i - 1))

(***************************************************************************)
(* Frame decoding                                                          *)
(***************************************************************************)
\* C6: a frame whose first two bytes are 0x45 0x4E, of any length, sets the
\* completion flag and the completion time and appends nothing.
C6_CompletionFrame ==
    [][ (arrived' # arrived /\ StartsEN(Last(arrived'))) =>
            /\ measurement_complete'
            /\ data_acquisition_time' \in ClockReadings
            /\ data_buffer' = data_buffer ]_vars

C6_Witness ==
    /\ arrived = << <<69, 78, 0, 255>> >>
    /\ measurement_complete
    /\ data_acquisition_time # NoneTime
    /\ Len(data_buffer) = 2
    /\ data_buffer = last_buffer

\* C7: a non-empty frame of even length that does not start with 'E','N'
\* appends exactly length/2 samples, in pair order, sample j carrying byte 2j
\* as interval and byte 2j+1 as raw temperature byte (j from 0); the
\* completion flag and time are unchanged.
C7_DataFrame ==
    [][ (arrived' # arrived /\ CarriesSamples(Last(arrived'))) =>
            LET f == Last(arrived')
                n == Len(data_buffer)
            IN  /\ Len(data_buffer') = n + Len(f) \div 2
                /\ SubSeq(data_buffer', 1, n) = data_buffer
                /\ \A j \in 0..(Len(f) \div 2 - 1) :
                      /\ data_buffer'[n + j + 1].interval = f[2 * j + 1]
                      /\ data_buffer'[n + j + 1].raw_temp_byte = f[2 * j + 2]
                /\ measurement_complete' = measurement_complete
                /\ data_acquisition_time' = data_acquisition_time ]_vars

C7_Witness ==
    /\ arrived = << <<69, 0, 255, 78>> >>
    /\ Len(last_buffer) = 2
    /\ Len(data_buffer) = 4
    /\ data_buffer[3].interval = 69
    /\ data_buffer[4].raw_temp_byte = 78

\* C8: an empty frame, a one-byte frame, or any frame of odd length that does
\* not start with 'E','N' changes neither the buffer nor the completion flag
\* nor the completion time, raises no error, and leaves the handler
\* registered on the open connection.
C8_IgnoredFrame ==
    [][ (arrived' # arrived /\ ~StartsEN(Last(arrived'))
            /\ (Len(Last(arrived')) = 0 \/ Len(Last(arrived')) % 2 = 1)) =>
            /\ data_buffer' = data_buffer
            /\ measurement_complete' = measurement_complete
            /\ data_acquisition_time' = data_acquisition_time
            /\ error' = None
            /\ subscribed' /\ is_connected'
            /\ pc' = pc ]_vars

C8_Witness ==
    /\ arrived \in { << <<69>> >>, << <<69, 0, 255>> >>, << <<>> >> }
    /\ Len(data_buffer) = 1
    /\ data_buffer = last_buffer
    /\ ~measurement_complete
    /\ subscribed

\* C9: generate_csv_data returns the empty sequence when the buffer is empty
\* or the completion time is missing, also for a buffer that holds samples.
C9_EmptyWithoutBufferOrTime ==
    (pc = "csv_done" /\ (data_buffer = <<>> \/ data_acquisition_time = NoneTime))
        => csv_rows = <<>>

C9_Witness ==
    /\ pc = "csv_done"
    /\ Len(data_buffer) = 2
    /\ data_acquisition_time = NoneTime
    /\ csv_rows = <<>>

(***************************************************************************)
(* Temperature codec                                                       *)
(***************************************************************************)
\* C10: for a byte b in 0..255 the temperature is b * 0.0625 + 25.0, that is
\* b + 400 sixteenths; it does not decrease when b grows, lies in 25.0 ..
\* 40.9375 (400 .. 655 sixteenths), and a signed argument in -128..-1 gives
\* the temperature of its unsigned value b + 256.
C10_TemperatureOfByte ==
    (pc = "temp_done") =>
        LET b == byte_value[1]
            c == byte_value[2]
        IN  /\ temperature[2] = c + 400
            /\ temperature[2] >= 400 /\ temperature[2] <= 655
            /\ b >= 0 => temperature[1] = b + 400
            /\ (b >= 0 /\ b <= c) => temperature[1] <= temperature[2]
            /\ (b < 0 /\ c = b + 256) => temperature[1] = temperature[2]

C10_Witness ==
    /\ pc = "temp_done"
    /\ byte_value = <<-1, 255>>
    /\ temperature = <<655, 655>>

(***************************************************************************)
(* Termination of the wait and teardown                                    *)
(***************************************************************************)
StopNotifyInvoked == \E i \in DOMAIN ops : ops[i].op = "stop_notify"

DisconnectInvoked == \E i \in DOMAIN ops : ops[i].op = "disconnect"

Failed(name) == \E i \in DOMAIN ops : ops[i].op = name /\ ~ops[i].ok

\* C12: on every exit path of main after a connection attempt (normal
\* completion, timeout, failure of subscribe, write or unsubscribe) teardown
\* is attempted exactly once: stop_notify once for a subscription that was
\* started, disconnect once for a connection that is open.
C12_TeardownExactlyOnce ==
    (pc = "done" /\ error # "CancelledError") =>
        /\ Cardinality(OpsNamed("stop_notify")) <= 1
        /\ Cardinality(OpsNamed("disconnect")) <= 1
        /\ Succeeded("start_notify") => StopNotifyInvoked
        /\ Succeeded("connect") => DisconnectInvoked

\* C13: when the user interrupts after notifications were subscribed (during
\* the command write or the wait), stop_notify and disconnect have both been
\* attempted by the time the cancellation leaves main.
C13_CancelUnsubscribesAndDisconnects ==
    (pc = "done" /\ error = "CancelledError" /\ Succeeded("start_notify")) =>
        (StopNotifyInvoked /\ DisconnectInvoked)

\* C14: a failed subscribe or command write ends the session and is not
\* retried: after a failed subscribe the command is never written, after a
\* failed write the wait is never entered, each of the two calls is made at
\* most once, the error is with the caller, and the buffer still holds every
\* sample decoded so far.
C14_HandshakeFailureIsFatal ==
    /\ Cardinality(OpsNamed("start_notify")) <= 1
    /\ Cardinality(OpsNamed("write_gatt_char")) <= 1
    /\ Failed("start_notify") =>
          /\ OpsNamed("write_gatt_char") = {}
          /\ ~subscribed
    /\ (Failed("start_notify") \/ Failed("write_gatt_char")) =>
          /\ pc \in {"disconnect", "done"}
          /\ error \in {"TransportError", "CancelledError"}
          /\ exit_kind = None
          /\ ~StopNotifyInvoked
          /\ measurements = <<>>
          /\ PairsIn(data_buffer) = SamplesOf(arrived)

C14_Witness ==
    /\ pc = "done"
    /\ error = "TransportError"
    /\ Failed("write_gatt_char")
    /\ Len(data_buffer) = 2
    /\ Len(arrived) = 3

\* C15: the wait loop is left by the timeout exit only when no completion
\* frame has been handled: at a timeout exit measurement_complete is false
\* and no completion time is set.
C15_TimeoutOnlyWithoutCompletion ==
    (exit_kind = "timeout" /\ exit_frames = Len(arrived)) =>
        (~measurement_complete /\ data_acquisition_time = NoneTime)

\* C16: frames are decoded one at a time in arrival order: in every state
\* the buffer is the concatenation, in arrival order, of the complete pair
\* lists of the data frames handled so far, and so is the returned buffer.
C16_BufferIsFramesInArrivalOrder ==
    /\ PairsIn(data_buffer) = SamplesOf(arrived)
    /\ IsPrefix(last_buffer, data_buffer)
    /\ arrived # <<>> =>
          PairsIn(last_buffer) = SamplesOf(SubSeq(arrived, 1, Len(arrived) - 1))
    /\ Returned => measurements = data_buffer

C16_Witness ==
    /\ pc = "sleep"
    /\ arrived = << <<3, 255, 7, 0>>, <<5, 40, 10>>, <<10, 48>> >>
    /\ Len(last_buffer) = 2
    /\ Len(data_buffer) = 3

\* C17: generate_csv_data leaves the buffer, the completion flag and the
\* completion time as they are and, when buffer and time are present, returns
\* one record per sample, record k with the temperature of sample k, the
\* wearer name "test" and the device address of the reader.
C17_CsvLeavesSessionUnchanged ==
    [][ (pc = "csv_call" /\ pc' = "csv_done") =>
            /\ data_buffer' = data_buffer
            /\ measurement_complete' = measurement_complete
            /\ data_acquisition_time' = data_acquisition_time
            /\ (data_buffer # <<>> /\ data_acquisition_time # NoneTime) =>
                  /\ Len(csv_rows') = Len(data_buffer)
                  /\ \A k \in 1..Len(data_buffer) :
                        /\ csv_rows'[k].temperature = data_buffer[k].temperature
                        /\ csv_rows'[k].halshareWearerName = "test"
                        /\ csv_rows'[k].halshareId = ADDRESS ]_vars

C17_Witness ==
    /\ pc = "csv_done"
    /\ Len(data_buffer) = 3
    /\ data_acquisition_time = [s |-> 86399, us |-> 999999]
    /\ [k \in 1..3 |-> csv_rows[k].temperature] = <<655, 440, 400>>

\* Seconds since 2024-01-01 00:00:00 of a printed stamp.
StampSeconds(st) == st.day * 86400 + st.hh * 3600 + st.mm * 60 + st.ss

\* C18: the records are in chronological order: stamps do not decrease from
\* first to last, none is later than the completion time T, and the last one
\* is T.
C18_RowsChronological ==
    (pc = "csv_done" /\ csv_rows # <<>>) =>
        LET n == Len(csv_rows)
            T == data_acquisition_time
        IN  /\ \A k \in 1..(n - 1) :
                  StampSeconds(csv_rows[k].datetime)
                      <= StampSeconds(csv_rows[k + 1].datetime)
            /\ \A k \in 1..n : StampSeconds(csv_rows[k].datetime) <= T.s
            /\ StampSeconds(csv_rows[n].datetime) = T.s

C18_Witness ==
    /\ pc = "csv_done"
    /\ Len(csv_rows) = 3
    /\ data_buffer[2].interval = 0
    /\ data_buffer[3].interval = 255
    /\ StampSeconds(csv_rows[1].datetime) = 36000 - 255 * 60
    /\ StampSeconds(csv_rows[2].datetime) = 36000 - 255 * 60
    /\ StampSeconds(csv_rows[3].datetime) = 36000

\* C19: no frame delivered between the successful subscribe and the end of
\* the command write is decoded into the buffer or sets the completion flag:
\* the wait loop starts with an empty buffer and the flag unset.
C19_NothingDecodedBeforeWait ==
    (pc = "write") =>
        (data_buffer = <<>> /\ ~measurement_complete
            /\ data_acquisition_time = NoneTime)

\* C20: the completion time is captured at most once: once it is set, no
\* later frame changes it.
C20_CompletionTimeSetOnce ==
    [][ data_acquisition_time # NoneTime =>
            data_acquisition_time' = data_acquisition_time ]_vars

\* C21: in every reachable state measurement_complete is true if and only if
\* data_acquisition_time is set: both start unset, a completion frame sets
\* both in one step, and no step unsets either of them.
C21_CompleteIffTimeSet ==
    /\ [](measurement_complete <=> data_acquisition_time # NoneTime)
    /\ [][ /\ measurement_complete => measurement_complete'
           /\ data_acquisition_time # NoneTime =>
                  data_acquisition_time' # NoneTime
           /\ (measurement_complete' /\ ~measurement_complete) =>
                  (/\ data_acquisition_time = NoneTime
                   /\ data_acquisition_time' \in ClockReadings
                   /\ Len(arrived') = Len(arrived) + 1
                   /\ StartsEN(Last(arrived'))) ]_vars

\* A session that ran to its end after a completion frame arrived first and
\* other frames followed it: the flag and the time are both still set.
C21_Witness ==
    /\ pc = "done"
    /\ Len(arrived) = MaxFrames
    /\ StartsEN(arrived[1])
    /\ ~StartsEN(arrived[2])
    /\ measurement_complete
    /\ data_acquisition_time \in ClockReadings

====
